---- MODULE Spec2Model ----
(***************************************************************************)
(* Model of pymc3/distributions/transforms.py: the change-of-variables     *)
(* transforms (Log, LogOdds, Interval, SumTo1, StickBreaking, Circular),   *)
(* the default elementwise Jacobian and TransformedDistribution.           *)
(*                                                                         *)
(* Numbers are exact.  A number is a record [k, n, d, e2, e3]:             *)
(*   k = "rat"  : the rational n/d (d > 0, lowest terms)                   *)
(*   k = "log"  : the real  e2*ln 2 + e3*ln 3 + ln(n/d), n/d coprime to 6  *)
(*   k = "ang"  : the angle n*pi/12                                        *)
(*   k = "pinf", "ninf", "nan" : the IEEE special values                   *)
(* so that exp and log are computations (prime powers against              *)
(* factorisation) and division by zero and log of a non-positive number    *)
(* give the values floating point gives.  Rounding, overflow and underflow *)
(* of finite values are outside the model.                                 *)
(***************************************************************************)
EXTENDS Integers, Sequences, FiniteSets, TLC

VARIABLES tr, base, td, call

vars == <<tr, base, td, call>>

\* ------------------------------------------------------------------------
\* Bounds of the explored inputs.
MaxDen == 3
MaxK == 3
MaxTurn == 3

\* ------------------------------------------------------------------------
\* Exact arithmetic with the IEEE special values.

AbsInt(i) == IF i < 0 THEN -i ELSE i

RECURSIVE Gcd(_, _)
Gcd(i, j) == IF j = 0 THEN i ELSE Gcd(j, i % j)

RECURSIVE Pow(_, _)
Pow(p, e) == IF e <= 0 THEN 1 ELSE p * Pow(p, e - 1)

\* the exponent of the prime p in the positive integer i
RECURSIVE Val(_, _)
Val(p, i) == IF i % p = 0 THEN 1 + Val(p, i \div p) ELSE 0

Mk(k, n, d, e2, e3) == [k |-> k, n |-> n, d |-> d, e2 |-> e2, e3 |-> e3]

PINF == Mk("pinf", 0, 1, 0, 0)
NINF == Mk("ninf", 0, 1, 0, 0)
NAN == Mk("nan", 0, 1, 0, 0)
\* the result of arithmetic between sorts the model does not relate
BAD == Mk("bad", 0, 1, 0, 0)

\* the rational n/d, d # 0
R(n, d) ==
    LET g == Gcd(AbsInt(n), AbsInt(d))
        s == IF d < 0 THEN -1 ELSE 1
    IN  Mk("rat", (s * n) \div g, (s * d) \div g, 0, 0)

\* the real e2*ln 2 + e3*ln 3 + ln(n/d), n and d positive and coprime to 6
Ln(e2, e3, n, d) ==
    LET g == Gcd(n, d) IN Mk("log", n \div g, d \div g, e2, e3)

\* the angle n*pi/12
Ang(n) == Mk("ang", n, 1, 0, 0)

Zero == R(0, 1)
One == R(1, 1)

IsInf(x) == x.k \in {"pinf", "ninf"}
IsFinite(x) == x.k \in {"rat", "log", "ang"}
IsNanOrInf(x) == x.k \in {"pinf", "ninf", "nan"}

\* the sign of a rational or of an infinity (0 counts as +0)
Sign(x) ==
    CASE x.k = "pinf" -> 1
      [] x.k = "ninf" -> -1
      [] x.k = "rat" -> IF x.n < 0 THEN -1 ELSE IF x.n > 0 THEN 1 ELSE 0
      [] OTHER -> 0

Inf(s) == IF s < 0 THEN NINF ELSE PINF

Neg(x) ==
    CASE x.k = "rat" -> R(-x.n, x.d)
      [] x.k = "log" -> Ln(-x.e2, -x.e3, x.d, x.n)
      [] x.k = "ang" -> Ang(-x.n)
      [] x.k = "pinf" -> NINF
      [] x.k = "ninf" -> PINF
      [] OTHER -> x

Add(x, y) ==
    CASE x.k = "bad" \/ y.k = "bad" -> BAD
      [] x.k = "nan" \/ y.k = "nan" -> NAN
      [] IsInf(x) /\ IsInf(y) -> IF x.k = y.k THEN x ELSE NAN
      [] IsInf(x) -> x
      [] IsInf(y) -> y
      [] x.k = "rat" /\ y.k = "rat" ->
            LET g == Gcd(x.d, y.d)
            IN  R(x.n * (y.d \div g) + y.n * (x.d \div g), (x.d \div g) * y.d)
      [] x.k = "log" /\ y.k = "log" ->
            Ln(x.e2 + y.e2, x.e3 + y.e3, x.n * y.n, x.d * y.d)
      [] x.k = "ang" /\ y.k = "ang" -> Ang(x.n + y.n)
      [] OTHER -> BAD

Sub(x, y) == Add(x, Neg(y))

Mul(x, y) ==
    CASE x.k = "bad" \/ y.k = "bad" -> BAD
      [] x.k = "nan" \/ y.k = "nan" -> NAN
      [] IsInf(x) \/ IsInf(y) ->
            IF Sign(x) * Sign(y) = 0 THEN NAN ELSE Inf(Sign(x) * Sign(y))
      [] x.k = "rat" /\ y.k = "rat" ->
            LET g == Gcd(AbsInt(x.n), y.d)
                h == Gcd(AbsInt(y.n), x.d)
            IN  R((x.n \div g) * (y.n \div h), (x.d \div h) * (y.d \div g))
      [] OTHER -> BAD

Div(x, y) ==
    CASE x.k = "bad" \/ y.k = "bad" -> BAD
      [] x.k = "nan" \/ y.k = "nan" -> NAN
      [] IsInf(x) /\ IsInf(y) -> NAN
      [] IsInf(x) -> IF Sign(y) < 0 THEN Neg(x) ELSE x
      [] IsInf(y) -> Zero
      [] x.k = "rat" /\ y.k = "rat" ->
            IF y.n = 0
            THEN IF x.n = 0 THEN NAN ELSE Inf(Sign(x))
            ELSE LET g == Gcd(AbsInt(x.n), AbsInt(y.n))
                     h == Gcd(x.d, y.d)
                 IN  R((x.n \div g) * (y.d \div h), (x.d \div h) * (y.n \div g))
      [] OTHER -> BAD

Abs(x) ==
    CASE x.k = "rat" -> R(AbsInt(x.n), x.d)
      [] x.k = "ninf" -> PINF
      [] OTHER -> x

\* tt.log
Log(x) ==
    CASE x.k = "nan" \/ x.k = "ninf" -> NAN
      [] x.k = "pinf" -> PINF
      [] x.k = "rat" ->
            IF x.n < 0 THEN NAN
            ELSE IF x.n = 0 THEN NINF
            ELSE LET n2 == Val(2, x.n)
                     n3 == Val(3, x.n)
                     d2 == Val(2, x.d)
                     d3 == Val(3, x.d)
                 IN  Ln(n2 - d2, n3 - d3,
                        x.n \div (Pow(2, n2) * Pow(3, n3)),
                        x.d \div (Pow(2, d2) * Pow(3, d3)))
      [] OTHER -> BAD

\* tt.exp
Exp(y) ==
    CASE y.k = "nan" -> NAN
      [] y.k = "pinf" -> PINF
      [] y.k = "ninf" -> Zero
      [] y.k = "log" ->
            R(Pow(2, y.e2) * Pow(3, y.e3) * y.n,
              Pow(2, -y.e2) * Pow(3, -y.e3) * y.d)
      [] OTHER -> BAD

\* tt.log1p
Log1p(x) == Log(Add(One, x))

\* order of two finite rationals
Less(x, y) == x.n * y.d < y.n * x.d
Leq(x, y) == x.n * y.d <= y.n * x.d

\* ------------------------------------------------------------------------
\* Values carrying a derivative: [v |-> value, g |-> d value / d seed].
\* theano differentiates the expression each transform builds; here every
\* primitive propagates the derivative by the rule theano's gradient uses.

Dual(v, g) == [v |-> v, g |-> g]
Const(x) == Dual(x, Zero)

DAdd(x, y) == Dual(Add(x.v, y.v), Add(x.g, y.g))
DSub(x, y) == Dual(Sub(x.v, y.v), Sub(x.g, y.g))
DMul(x, y) == Dual(Mul(x.v, y.v), Add(Mul(x.g, y.v), Mul(x.v, y.g)))
DDiv(x, y) ==
    Dual(Div(x.v, y.v),
         Sub(Div(x.g, y.v), Div(Mul(x.v, y.g), Mul(y.v, y.v))))
DExp(x) == Dual(Exp(x.v), Mul(Exp(x.v), x.g))

\* tt.nnet.sigmoid: 1 / (1 + exp(-x)), gradient s * (1 - s)
Sigmoid(x) == Div(One, Add(One, Exp(Neg(x))))
DSigmoid(x) ==
    LET s == Sigmoid(x.v) IN Dual(s, Mul(Mul(s, Sub(One, s)), x.g))

\* ------------------------------------------------------------------------
\* Tensors: [nd |-> number of dimensions (0 or 1), v |-> the entries].
\* RAISED stands for a call that raised instead of returning.

T(nd, v) == [nd |-> nd, v |-> v]
Scalar(x) == T(0, <<x>>)
Vec(v) == T(1, v)
RAISED == T(-1, <<>>)
Size(x) == Len(x.v)

MapConst(x) == T(x.nd, [i \in 1..Size(x) |-> Const(x.v[i])])
MapVal(x) == IF x.nd < 0 THEN x ELSE T(x.nd, [i \in 1..Size(x) |-> x.v[i].v])
\* x with the derivative seed 1 at entry i and 0 elsewhere
Seed(x, i) ==
    T(x.nd, [j \in 1..Size(x) |-> Dual(x.v[j], IF j = i THEN One ELSE Zero)])

RECURSIVE SumSeq(_, _, _)
SumSeq(zero, s, i) == IF i = 0 THEN zero ELSE Add(SumSeq(zero, s, i - 1), s[i])

\* tt.sum of the first i entries; the sum of no entries is 0
RECURSIVE DSumSeq(_, _)
DSumSeq(s, i) ==
    IF i = 0 THEN Const(Zero)
    ELSE IF i = 1 THEN s[1]
    ELSE DAdd(DSumSeq(s, i - 1), s[i])

\* the product of the first i entries (extra_ops.cumprod)
RECURSIVE DProdSeq(_, _)
DProdSeq(s, i) == IF i = 1 THEN s[1] ELSE DMul(DProdSeq(s, i - 1), s[i])

\* tt.sum of a tensor
DSum(x) == DSumSeq(x.v, Size(x))

DCumProd(s) == [i \in 1..Len(s) |-> DProdSeq(s, i)]

\* the zero of the sort of the entries of a tensor of the given values
LogZero == Ln(0, 0, 1, 1)

\* ------------------------------------------------------------------------
\* sin, cos and arctan2 on the angles n*pi/12 with n a multiple of 2 or 3.
\* A sine or cosine is the surd c*sqrt(r): [c |-> rational, r |-> radicand].

Surd(c, r) == [c |-> c, r |-> r]

Sin(n) ==
    LET m == n % 24
        mm == m % 12
        ref == IF mm <= 6 THEN mm ELSE 12 - mm
        sg == IF m < 12 THEN 1 ELSE -1
    IN  CASE ref = 0 -> Surd(Zero, 1)
          [] ref = 2 -> Surd(R(sg, 2), 1)
          [] ref = 3 -> Surd(R(sg, 2), 2)
          [] ref = 4 -> Surd(R(sg, 2), 3)
          [] ref = 6 -> Surd(R(sg, 1), 1)
          [] OTHER -> Surd(BAD, 1)

Cos(n) == Sin(n + 6)

\* the rational product of two surds of one radicand (or with a zero factor)
SurdMul(x, y) ==
    IF x.c = Zero \/ y.c = Zero THEN Zero
    ELSE IF x.r = y.r THEN Mul(Mul(x.c, y.c), R(x.r, 1))
    ELSE BAD

SurdScale(x, q) == Surd(Mul(x.c, q), x.r)
SurdNeg(x) == Surd(Neg(x.c), x.r)

\* tt.arctan2(a, b), in (-pi, pi]
ArcTan2(a, b) ==
    LET a2 == SurdMul(a, a)
        b2 == SurdMul(b, b)
        t == Div(a2, Add(a2, b2))
        ref == CASE t = Zero -> 0
                 [] t = R(1, 4) -> 2
                 [] t = R(1, 2) -> 3
                 [] t = R(3, 4) -> 4
                 [] t = One -> 6
                 [] OTHER -> 0
        sa == Sign(a.c)
        sb == Sign(b.c)
    IN  IF a2.k = "bad" \/ b2.k = "bad" THEN BAD
        ELSE IF sb > 0 THEN Ang(sa * ref)
        ELSE IF sb = 0 THEN Ang(sa * 6)
        ELSE IF sa >= 0 THEN Ang(12 - ref)
        ELSE Ang(ref - 12)

DSin(x) == Dual(Sin(x.v.n), SurdScale(Cos(x.v.n), x.g))
DCos(x) == Dual(Cos(x.v.n), SurdScale(SurdNeg(Sin(x.v.n)), x.g))
\* gradient of arctan2(a, b): b / (a^2 + b^2) to a, -a / (a^2 + b^2) to b
DArcTan2(a, b) ==
    Dual(ArcTan2(a.v, b.v),
         Div(Sub(SurdMul(b.v, a.g), SurdMul(a.v, b.g)),
             Add(SurdMul(a.v, a.v), SurdMul(b.v, b.v))))

\* ------------------------------------------------------------------------
\* The transforms.  A transform object is [name, a, b]; a and b are the
\* fields of an Interval and unused by the other classes.

Transform(name, a, b) == [name |-> name, a |-> a, b |-> b]

\* logit(x) = tt.log(x / (1 - x))
logit(x) == Log(Div(x, Sub(One, x)))

inverse_logit(x) == DSigmoid(x)

Log_backward(x) == T(x.nd, [i \in 1..Size(x) |-> DExp(x.v[i])])

Log_forward(x) == T(x.nd, [i \in 1..Size(x) |-> Log(x.v[i])])

LogOdds_backward(x) == T(x.nd, [i \in 1..Size(x) |-> inverse_logit(x.v[i])])

LogOdds_forward(x) == T(x.nd, [i \in 1..Size(x) |-> logit(x.v[i])])

\* a backward that subtracts the lower bound: (b - a) * exp(x) / (1 + exp(x)) - a
Interval_backward_minus(self, x) ==
    LET a == Const(self.a)
        b == Const(self.b)
    IN  T(x.nd, [i \in 1..Size(x) |->
            DSub(DDiv(DMul(DSub(b, a), DExp(x.v[i])),
                      DAdd(Const(One), DExp(x.v[i]))),
                 a)])

\* r = (b - a) * tt.exp(x) / (1 + tt.exp(x)) + a
Interval_backward(self, x) ==
    LET a == Const(self.a)
        b == Const(self.b)
    IN  T(x.nd, [i \in 1..Size(x) |->
            DAdd(DDiv(DMul(DSub(b, a), DExp(x.v[i])),
                      DAdd(Const(One), DExp(x.v[i]))),
                 a)])

\* a forward that divides by the width: log((x - a) / (b - a))
Interval_forward_width(self, x) ==
    T(x.nd, [i \in 1..Size(x) |->
        Log(Div(Sub(x.v[i], self.a), Sub(self.b, self.a)))])

\* a forward that guards the logarithm: log(|x - a| / |b - x|)
Interval_forward_abs(self, x) ==
    T(x.nd, [i \in 1..Size(x) |->
        Log(Div(Abs(Sub(x.v[i], self.a)), Abs(Sub(self.b, x.v[i]))))])

\* r = tt.log((x - a) / (b - x))
Interval_forward(self, x) ==
    T(x.nd, [i \in 1..Size(x) |->
        Log(Div(Sub(x.v[i], self.a), Sub(self.b, x.v[i])))])

\* tt.concatenate([y, 1 - tt.sum(y, keepdims=True)])
SumTo1_backward(y) ==
    IF y.nd = 0 THEN RAISED
    ELSE Vec(Append(y.v, DSub(Const(One), DSumSeq(y.v, Size(y)))))

\* x[:-1]
SumTo1_forward(x) ==
    IF x.nd = 0 THEN RAISED
    ELSE Vec(SubSeq(x.v, 1, Size(x) - 1))

SumTo1_jacobian_det(x) == Scalar(LogZero)

\* eq_share = -tt.log(Km1 - k) for k = 0 .. Km1 - 1, at the 1-based index i
eq_share(Km1, i) == Neg(Log(R(Km1 - (i - 1), 1)))

\* y[:1] has min(1, len(y)) entries
ones_head(y) == IF Size(y) = 0 THEN <<>> ELSE <<Const(One)>>

StickBreaking_forward(x) ==
    IF x.nd = 0 \/ Size(x) = 0 THEN RAISED
    ELSE LET Km1 == Size(x) - 1
             x0 == SubSeq(x.v, 1, Km1)
             last == x.v[Size(x)]
             \* tt.extra_ops.cumsum(x0[::-1], 0)[::-1] + x[-1]
             rev == [i \in 1..Km1 |-> x0[Km1 + 1 - i]]
             cs == [i \in 1..Km1 |-> SumSeq(Zero, rev, i)]
             s == [i \in 1..Km1 |-> Add(cs[Km1 + 1 - i], last)]
             z == [i \in 1..Km1 |-> Div(x0[i], s[i])]
         IN  Vec([i \in 1..Km1 |-> Sub(logit(z[i]), eq_share(Km1, i))])

StickBreaking_backward(y) ==
    IF y.nd = 0 THEN RAISED
    ELSE LET Km1 == Size(y)
             z == [i \in 1..Km1 |->
                     inverse_logit(DAdd(y.v[i], Const(eq_share(Km1, i))))]
             yl == z \o ones_head(y)
             yu == ones_head(y) \o [i \in 1..Km1 |-> DSub(Const(One), z[i])]
             S == DCumProd(yu)
         IN  Vec([i \in 1..Len(S) |-> DMul(S[i], yl[i])])

\* a Jacobian that takes S[1:] for S[:-1]
StickBreaking_jacobian_det_shifted(y) ==
    IF y.nd = 0 THEN RAISED
    ELSE LET Km1 == Size(y)
             yl == [i \in 1..Km1 |-> Add(y.v[i], eq_share(Km1, i))]
             yu == ones_head(y) \o
                   [i \in 1..Km1 |->
                       DSub(Const(One), inverse_logit(Const(yl[i])))]
             S == DCumProd(yu)
             term == [i \in 1..Km1 |->
                        Sub(Sub(Log(S[i + 1].v), Log1p(Exp(yl[i]))),
                            Log1p(Exp(Neg(yl[i]))))]
         IN  Scalar(SumSeq(LogZero, term, Km1))

\* return tt.sum(tt.log(S[:-1]) - tt.log1p(tt.exp(yl)) - tt.log1p(tt.exp(-yl)), 0)
StickBreaking_jacobian_det(y) ==
    IF y.nd = 0 THEN RAISED
    ELSE LET Km1 == Size(y)
             yl == [i \in 1..Km1 |-> Add(y.v[i], eq_share(Km1, i))]
             yu == ones_head(y) \o
                   [i \in 1..Km1 |->
                       DSub(Const(One), inverse_logit(Const(yl[i])))]
             S == DCumProd(yu)
             term == [i \in 1..Km1 |->
                        Sub(Sub(Log(S[i].v), Log1p(Exp(yl[i]))),
                            Log1p(Exp(Neg(yl[i]))))]
         IN  Scalar(SumSeq(LogZero, term, Km1))

\* a backward with the arguments of arctan2 exchanged
Circular_backward_swapped(y) ==
    T(y.nd, [i \in 1..Size(y) |-> DArcTan2(DCos(y.v[i]), DSin(y.v[i]))])

\* tt.arctan2(tt.sin(y), tt.cos(y))
Circular_backward(y) ==
    T(y.nd, [i \in 1..Size(y) |-> DArcTan2(DSin(y.v[i]), DCos(y.v[i]))])

Circular_forward(x) == x

\* Transform.forward by class
forward(self, x) ==
    CASE self.name = "log" -> Log_forward(x)
      [] self.name = "logodds" -> LogOdds_forward(x)
      [] self.name = "interval" -> Interval_forward(self, x)
      [] self.name = "sumto1" -> SumTo1_forward(x)
      [] self.name = "stickbreaking" -> StickBreaking_forward(x)
      [] self.name = "circular" -> Circular_forward(x)

\* Transform.backward by class, on values carrying derivatives
backwardD(self, x) ==
    CASE self.name = "log" -> Log_backward(x)
      [] self.name = "logodds" -> LogOdds_backward(x)
      [] self.name = "interval" -> Interval_backward(self, x)
      [] self.name = "sumto1" -> SumTo1_backward(x)
      [] self.name = "stickbreaking" -> StickBreaking_backward(x)
      [] self.name = "circular" -> Circular_backward(x)

\* Transform.backward by class, evaluated
backward(self, x) == MapVal(backwardD(self, MapConst(x)))

\* tt.sum(self.backward(x))
sum_backward(self, x) == DSum(backwardD(self, x))

\* theanof.gradient(tt.sum(self.backward(x)), [x]): the derivative of the
\* sum to each entry of x
gradient_sum_backward(self, x) ==
    [i \in 1..Size(x) |-> sum_backward(self, Seed(x, i)).g]

\* a Jacobian that takes the log of the gradient without its absolute value
ElemwiseTransform_jacobian_det_signed(self, x) ==
    T(x.nd, [i \in 1..Size(x) |-> Log(gradient_sum_backward(self, x)[i])])

\* grad = tt.reshape(gradient(tt.sum(self.backward(x)), [x]), x.shape)
\* return tt.log(tt.abs_(grad))
ElemwiseTransform_jacobian_det(self, x) ==
    T(x.nd, [i \in 1..Size(x) |-> Log(Abs(gradient_sum_backward(self, x)[i]))])

jacobian_det(self, x) ==
    CASE self.name = "sumto1" -> SumTo1_jacobian_det(x)
      [] self.name = "stickbreaking" -> StickBreaking_jacobian_det(x)
      [] OTHER -> ElemwiseTransform_jacobian_det(self, x)

\* ------------------------------------------------------------------------
\* The base distributions (pymc3.distributions.distribution, outside this
\* file): what TransformedDistribution needs of them, default() and logp().
\* A distribution object is [name, ndim].

Distribution(name, ndim) == [name |-> name, ndim |-> ndim]

\* dist.default(): the default value, or RAISED when none is defined
dist_default(dist) ==
    CASE dist.name = "Uniform" -> Scalar(R(1, 2))
      [] dist.name = "Beta21" -> Scalar(R(2, 3))
      [] dist.name = "Dirichlet211" -> Vec(<<R(1, 2), R(1, 4), R(1, 4)>>)
      [] dist.name = "Flat" -> Scalar(Ang(0))
      [] OTHER -> RAISED

InUnit(x) == x.k = "rat" /\ Leq(Zero, x) /\ Leq(x, One)

\* dist.logp(x)
dist_logp(dist, x) ==
    CASE x.nd < 0 -> RAISED
      [] dist.name = "Uniform" ->
            T(x.nd, [i \in 1..Size(x) |->
                        IF InUnit(x.v[i]) THEN LogZero ELSE NINF])
      [] dist.name = "Beta21" ->
            T(x.nd, [i \in 1..Size(x) |->
                        IF InUnit(x.v[i]) THEN Log(Mul(R(2, 1), x.v[i]))
                        ELSE NINF])
      [] dist.name = "Dirichlet211" ->
            Scalar(IF /\ Size(x) = 3
                      /\ \A i \in 1..Size(x) : InUnit(x.v[i])
                      /\ SumSeq(Zero, x.v, Size(x)) = One
                   THEN Log(Mul(R(6, 1), x.v[1]))
                   ELSE NINF)
      [] OTHER -> T(x.nd, [i \in 1..Size(x) |-> LogZero])

\* x + y on tensors, a 0-d operand broadcast
TAdd(x, y) ==
    IF x.nd < 0 \/ y.nd < 0 THEN RAISED
    ELSE IF x.nd = 0 /\ y.nd = 1
    THEN Vec([i \in 1..Size(y) |-> Add(x.v[1], y.v[i])])
    ELSE IF x.nd = 1 /\ y.nd = 0
    THEN Vec([i \in 1..Size(x) |-> Add(x.v[i], y.v[1])])
    ELSE IF Size(x) # Size(y) THEN RAISED
    ELSE T(x.nd, [i \in 1..Size(x) |-> Add(x.v[i], y.v[i])])

\* ------------------------------------------------------------------------
\* TransformedDistribution

None == T(-2, <<>>)

NoObject == [name |-> "None"]

Unconstructed ==
    [status |-> "none", dist |-> NoObject, transform_used |-> NoObject,
     testval |-> None, type |-> -2]

\* a constructor that keeps the untransformed default as the test value
TransformedDistribution_init_raw(dist, transform) ==
    LET default == dist_default(dist)
        v == forward(transform, default)
    IN  IF default.nd < 0
        THEN [Unconstructed EXCEPT !.status = "raised: dist.default()"]
        ELSE IF v.nd < 0
        THEN [Unconstructed EXCEPT !.status = "raised: forward"]
        ELSE [status |-> "ok", dist |-> dist, transform_used |-> transform,
              testval |-> default, type |-> v.nd]

\* TransformedDistribution.__init__(dist, transform): the object made, or
\* the step that raised
TransformedDistribution_init(dist, transform) ==
    LET default == dist_default(dist)
        testval == forward(transform, default)
        \* v = forward(FreeRV(name='v', distribution=dist)); the free
        \* variable has the distribution's type and its default as test value
        v == forward(transform, default)
    IN  IF default.nd < 0
        THEN [Unconstructed EXCEPT !.status = "raised: dist.default()"]
        ELSE IF testval.nd < 0
        THEN [Unconstructed EXCEPT !.status = "raised: forward"]
        ELSE [status |-> "ok", dist |-> dist, transform_used |-> transform,
              testval |-> testval, type |-> v.nd]

TNeg(x) == IF x.nd < 0 THEN x ELSE T(x.nd, [i \in 1..Size(x) |-> Neg(x.v[i])])

\* a logp that subtracts the Jacobian term
TransformedDistribution_logp_minus(self, x) ==
    TAdd(dist_logp(self.dist, backward(self.transform_used, x)),
         TNeg(jacobian_det(self.transform_used, x)))

\* return (self.dist.logp(self.transform_used.backward(x)) +
\*         self.transform_used.jacobian_det(x))
TransformedDistribution_logp(self, x) ==
    TAdd(dist_logp(self.dist, backward(self.transform_used, x)),
         jacobian_det(self.transform_used, x))

\* ------------------------------------------------------------------------
\* The inputs explored.

RatGrid(m) == {R(n, d) : n \in (-m)..(2 * m), d \in 1..m}
UnitGrid(m) == {x \in RatGrid(m) : InUnit(x)}
LogGrid(m) == {Log(R(n, d)) : n \in 1..m, d \in 1..m}
AngGrid(m) == {Ang(n) : n \in {i \in (-12 * m)..(12 * m) : i % 2 = 0 \/ i % 3 = 0}}

RECURSIVE Vecs(_, _)
\* the sequences of length n over S
Vecs(S, n) ==
    IF n = 0 THEN {<<>>}
    ELSE {Append(v, x) : v \in Vecs(S, n - 1), x \in S}

VecsUpTo(S, n) == UNION {Vecs(S, i) : i \in 0..n}

\* scalars over S and vectors of up to two entries over Few
ElemArgs(S, Few) ==
    {Scalar(x) : x \in S} \cup {Vec(v) : v \in VecsUpTo(Few, 2)}

\* vectors of up to n entries of [0, 1], on and off the simplex; the longer
\* the vector, the coarser the grid of its entries
SimplexArgs(n) ==
    {Vec(v) : v \in UNION {Vecs(UnitGrid(MaxDen + 3 - i), i) : i \in 0..n}}

\* vectors of up to n reals, the longer the coarser
RealArgs(n) ==
    {Vec(v) : v \in UNION {Vecs(LogGrid(MaxDen + 2 - i), i) : i \in 0..n}}

\* arguments of forward: values of the constrained space, in and out of
\* the transform's domain
ForwardArgs(self) ==
    CASE self.name \in {"log", "logodds", "interval"} ->
            ElemArgs(RatGrid(MaxDen), RatGrid(MaxDen - 1))
      [] self.name \in {"sumto1", "stickbreaking"} -> SimplexArgs(MaxK)
      [] self.name = "circular" -> ElemArgs(AngGrid(MaxTurn), AngGrid(1))

\* arguments of backward, jacobian_det and logp: unconstrained values
BackwardArgs(self) ==
    CASE self.name \in {"log", "logodds", "interval"} ->
            ElemArgs(LogGrid(MaxDen + 2), LogGrid(MaxDen))
      [] self.name = "stickbreaking" -> RealArgs(MaxK - 1)
      [] self.name = "sumto1" -> SimplexArgs(MaxK - 1)
      [] self.name = "circular" -> ElemArgs(AngGrid(MaxTurn), AngGrid(1))

IntervalBounds ==
    {<<R(0, 1), R(1, 1)>>, <<R(-1, 1), R(2, 1)>>, <<R(1, 2), R(2, 1)>>,
     <<R(1, 1), R(1, 1)>>, <<R(1, 1), R(0, 1)>>}

Transforms ==
    {Transform(n, Zero, Zero) :
        n \in {"log", "logodds", "sumto1", "stickbreaking", "circular"}}
    \cup {Transform("interval", ab[1], ab[2]) : ab \in IntervalBounds}

Distributions(self) ==
    IF self.name = "circular"
    THEN {Distribution("Flat", 0), Distribution("NoDefault", 0)}
    ELSE {Distribution("Uniform", 0), Distribution("Beta21", 0),
          Distribution("NoDefault", 0), Distribution("Dirichlet211", 1)}

\* ------------------------------------------------------------------------
\* The state machine: a transform object and a base distribution exist;
\* a TransformedDistribution is constructed from them once; the methods are
\* then called in any order with any argument.  call holds the last call
\* and what it returned until the caller has taken the result.

Call(op, arg, res) == [op |-> op, arg |-> arg, res |-> res]

\* the arguments of logp: values of the transformed variable's type and shape
LogpArgs(self) ==
    IF self.status # "ok" THEN {}
    ELSE {x \in BackwardArgs(self.transform_used) :
            x.nd = self.type /\ Size(x) = Size(self.testval)}

Init ==
    /\ tr \in Transforms
    /\ base \in Distributions(tr)
    /\ td = Unconstructed
    /\ call = Call("none", None, None)

Idle == call.op = "none"

Construct ==
    /\ Idle
    /\ td.status = "none"
    /\ td' = TransformedDistribution_init(base, tr)
    /\ UNCHANGED <<tr, base, call>>

CallForward ==
    /\ Idle
    /\ \E x \in ForwardArgs(tr) : call' = Call("forward", x, forward(tr, x))
    /\ UNCHANGED <<tr, base, td>>

CallBackward ==
    /\ Idle
    /\ \E x \in BackwardArgs(tr) :
          call' = Call("backward", x, backward(tr, x))
    /\ UNCHANGED <<tr, base, td>>

CallJacobianDet ==
    /\ Idle
    /\ \E x \in BackwardArgs(tr) :
          call' = Call("jacobian_det", x, jacobian_det(tr, x))
    /\ UNCHANGED <<tr, base, td>>

\* a logp that keeps the point it was last evaluated at as the test value
CallLogp_caching ==
    /\ Idle
    /\ td.status = "ok"
    /\ \E x \in LogpArgs(td) :
          /\ call' = Call("logp", x, TransformedDistribution_logp(td, x))
          /\ td' = [td EXCEPT !.testval = x]
    /\ UNCHANGED <<tr, base>>

\* a call of TransformedDistribution.logp(x)
CallLogp ==
    /\ Idle
    /\ td.status = "ok"
    /\ \E x \in LogpArgs(td) :
          call' = Call("logp", x, TransformedDistribution_logp(td, x))
    /\ UNCHANGED <<tr, base, td>>

Return ==
    /\ ~Idle
    /\ call' = Call("none", None, None)
    /\ UNCHANGED <<tr, base, td>>

Next ==
    \/ Construct
    \/ CallForward
    \/ CallBackward
    \/ CallJacobianDet
    \/ CallLogp
    \/ Return

Spec == Init /\ [][Next]_vars

\* ------------------------------------------------------------------------
\* Properties.

Elementwise == {"log", "logodds", "interval", "circular"}

AllEntries(x, P(_)) == \A i \in 1..Size(x) : P(x.v[i])

Positive(x) == x.k = "rat" /\ Less(Zero, x)
StrictlyBetween(lo, x, hi) == x.k = "rat" /\ Less(lo, x) /\ Less(x, hi)
\* an angle in (-pi, pi]
Principal(x) == x.k = "ang" /\ -12 < x.n /\ x.n <= 12

\* a vector of non-negative entries that sum to 1
OnSimplex(x) ==
    /\ x.nd = 1
    /\ Size(x) >= 1
    /\ \A i \in 1..Size(x) : x.v[i].k = "rat" /\ Leq(Zero, x.v[i])
    /\ SumSeq(Zero, x.v, Size(x)) = One

\* exp(y) / (1 + exp(y))^2, the derivative of the logistic function at y
LogisticDensity(y) ==
    Div(Exp(y), Mul(Add(One, Exp(y)), Add(One, Exp(y))))

\* C1: logp(y) is the base log-density at backward(y) plus jacobian_det(y);
\* for Uniform(0,1) under LogOdds that is the logistic log-density, and for
\* the density 2x under LogOdds it is log(2 s(y)) plus the logistic one.
C1_Logp ==
    call.op = "logp" =>
        /\ call.res = TAdd(dist_logp(base, backward(tr, call.arg)),
                           jacobian_det(tr, call.arg))
        /\ (tr.name = "logodds" /\ base.name = "Uniform") =>
              \A i \in 1..Size(call.arg) :
                  call.res.v[i] = Log(LogisticDensity(call.arg.v[i]))
        /\ (tr.name = "logodds" /\ base.name = "Beta21") =>
              \A i \in 1..Size(call.arg) :
                  call.res.v[i] =
                      Log(Mul(Mul(R(2, 1), Sigmoid(call.arg.v[i])),
                              LogisticDensity(call.arg.v[i])))

C1_Witness ==
    /\ call.op = "logp"
    /\ tr.name = "logodds"
    /\ base.name = "Beta21"
    /\ call.arg = Scalar(Log(R(3, 1)))
    /\ call.res = Scalar(Log(R(9, 32)))

\* the points strictly inside the domain of a transform
StrictlyInside(self, x) ==
    CASE self.name = "log" -> \A i \in 1..Size(x) : Positive(x.v[i])
      [] self.name = "logodds" ->
            \A i \in 1..Size(x) : StrictlyBetween(Zero, x.v[i], One)
      [] self.name = "interval" ->
            \A i \in 1..Size(x) : StrictlyBetween(self.a, x.v[i], self.b)
      [] self.name = "stickbreaking" ->
            OnSimplex(x) /\ \A i \in 1..Size(x) : Positive(x.v[i])
      [] OTHER -> TRUE

\* C2 as stated: for every transform except SumTo1, backward(forward(x)) = x
\* for x strictly inside the domain and forward(backward(y)) = y for every y.
C2_RoundTripEverywhere ==
    /\ (call.op = "forward" /\ tr.name # "sumto1"
            /\ StrictlyInside(tr, call.arg)) =>
          backward(tr, call.res) = call.arg
    /\ (call.op = "backward" /\ tr.name # "sumto1") =>
          forward(tr, call.res) = call.arg

\* the arguments on which forward and backward undo each other
Invertible(self, arg, op) ==
    CASE self.name = "interval" -> self.a # self.b
      [] self.name = "stickbreaking" ->
            Size(arg) >= (IF op = "forward" THEN 2 ELSE 1)
      [] self.name = "circular" -> \A i \in 1..Size(arg) : Principal(arg.v[i])
      [] OTHER -> TRUE

\* C2: the round trips hold for Log, LogOdds, Interval(a, b) with a # b,
\* StickBreaking on simplex vectors of length at least 2 (y of length at
\* least 1), and for Circular exactly on the angles in (-pi, pi]; elsewhere
\* Circular returns a different angle.
C2_RoundTrip ==
    /\ (call.op = "forward" /\ tr.name # "sumto1"
            /\ StrictlyInside(tr, call.arg)
            /\ Invertible(tr, call.arg, "forward")) =>
          backward(tr, call.res) = call.arg
    /\ (call.op = "backward" /\ tr.name # "sumto1"
            /\ Invertible(tr, call.arg, "backward")) =>
          forward(tr, call.res) = call.arg
    /\ (call.op \in {"forward", "backward"} /\ tr.name = "circular") =>
          \A i \in 1..Size(call.arg) :
              (backward(tr, forward(tr, call.arg)).v[i] = call.arg.v[i])
                  <=> Principal(call.arg.v[i])

C2_Witness ==
    /\ call.op = "forward"
    /\ tr.name = "stickbreaking"
    /\ call.arg = Vec(<<R(1, 3), R(1, 3), R(1, 3)>>)
    /\ call.res = Vec(<<LogZero, LogZero>>)
    /\ backward(tr, call.res) = call.arg

\* C3 as stated, for the simplex points of at least two entries:
\* StickBreaking maps every point of the simplex, zero entries included, to
\* a vector one shorter, and backward of that vector is the point again, of
\* the original length and with sum 1.
C3_WholeSimplex ==
    (call.op = "forward" /\ tr.name = "stickbreaking" /\ OnSimplex(call.arg)
        /\ Size(call.arg) >= 2) =>
        /\ call.res.nd = 1
        /\ Size(call.res) = Size(call.arg) - 1
        /\ Size(backward(tr, call.res)) = Size(call.arg)
        /\ backward(tr, call.res) = call.arg
        /\ SumSeq(Zero, backward(tr, call.res).v, Size(call.arg)) = One

\* the last two entries of x are both zero
TailEmpty(x) ==
    /\ Size(x) >= 2
    /\ x.v[Size(x) - 1] = Zero
    /\ x.v[Size(x)] = Zero

\* C3: that holds for simplex points of length at least 2 whose last two
\* entries are not both zero, zero entries elsewhere included; when the last
\* two entries are both zero forward returns a NaN entry and backward does
\* not recover the point; a point of length 1 is not recovered either.
C3_StickBreakingValid ==
    (call.op = "forward" /\ tr.name = "stickbreaking" /\ OnSimplex(call.arg)) =>
        /\ call.res.nd = 1
        /\ Size(call.res) = Size(call.arg) - 1
        /\ (Size(call.arg) >= 2 /\ ~TailEmpty(call.arg)) =>
              /\ Size(backward(tr, call.res)) = Size(call.arg)
              /\ backward(tr, call.res) = call.arg
              /\ SumSeq(Zero, backward(tr, call.res).v, Size(call.arg)) = One
        /\ TailEmpty(call.arg) =>
              /\ \E i \in 1..Size(call.res) : call.res.v[i] = NAN
              /\ backward(tr, call.res) # call.arg
        /\ Size(call.arg) = 1 => backward(tr, call.res) # call.arg

C3_Witness ==
    /\ call.op = "forward"
    /\ tr.name = "stickbreaking"
    /\ call.arg = Vec(<<R(1, 2), Zero, R(1, 2)>>)
    /\ backward(tr, call.res) = call.arg

\* the derivative of backward at one coordinate y, in closed form
backward_derivative(self, y) ==
    CASE self.name = "log" -> Exp(y)
      [] self.name = "logodds" -> Mul(Sigmoid(y), Sub(One, Sigmoid(y)))
      [] self.name = "interval" ->
            Mul(Sub(self.b, self.a), Mul(Sigmoid(y), Sub(One, Sigmoid(y))))
      [] self.name = "circular" -> One

\* C4: for Log, LogOdds, Interval and Circular, jacobian_det(y) has the shape
\* of y and its i-th entry is log|d backward(y)_i / d y_i|, the derivative
\* taken in closed form; for Log the entry is y_i itself.
C4_ElemwiseJacobian ==
    (call.op = "jacobian_det" /\ tr.name \in Elementwise) =>
        /\ call.res.nd = call.arg.nd
        /\ Size(call.res) = Size(call.arg)
        /\ \A i \in 1..Size(call.arg) :
              /\ call.res.v[i] = Log(Abs(backward_derivative(tr, call.arg.v[i])))
              /\ tr.name = "log" => call.res.v[i] = call.arg.v[i]

C4_Witness ==
    /\ call.op = "jacobian_det"
    /\ tr = Transform("interval", R(-1, 1), R(2, 1))
    /\ call.arg = Vec(<<Log(R(2, 1)), Log(R(1, 3))>>)
    /\ call.res = Vec(<<Log(R(2, 3)), Log(R(9, 16))>>)

\* C5 as stated: construction sets testval to forward(default()) and the type
\* to the type of forward of a free variable; it fails only if the base
\* distribution has no default value, and with a default it succeeds.
C5_FailsOnlyWithoutDefault ==
    td.status # "none" =>
        /\ td.status = "ok" <=> dist_default(base) # RAISED
        /\ td.status = "ok" =>
              /\ td.testval = forward(tr, dist_default(base))
              /\ td.type = forward(tr, dist_default(base)).nd

\* forward can be applied to a value of the distribution's shape
Applicable(self, dist) ==
    self.name \in {"sumto1", "stickbreaking"} => dist.ndim >= 1

\* C5: construction sets testval to forward(default()) and the type to the
\* type of forward of a free variable of the distribution; it fails if the
\* default is undefined and also if forward cannot be applied to a value of
\* the distribution's shape (SumTo1 and StickBreaking over a scalar
\* distribution), and otherwise succeeds.
C5_Construction ==
    td.status # "none" =>
        /\ td.status = "ok" <=>
              (dist_default(base) # RAISED /\ Applicable(tr, base))
        /\ td.status = "ok" =>
              /\ td.testval = forward(tr, dist_default(base))
              /\ td.type = forward(tr, dist_default(base)).nd
              /\ td.dist = base
              /\ td.transform_used = tr

C5_Witness ==
    /\ td.status = "ok"
    /\ tr.name = "stickbreaking"
    /\ base.name = "Dirichlet211"
    /\ td.testval = Vec(<<Log(R(2, 1)), LogZero>>)

\* an entry outside the open domain of an elementwise transform
OutOfDomain(self, x) ==
    CASE self.name = "log" -> Leq(x, Zero)
      [] self.name = "logodds" -> Leq(x, Zero) \/ Leq(One, x)
      [] self.name = "interval" -> Leq(x, self.a) \/ Leq(self.b, x)
      [] OTHER -> FALSE

C8_CircularWrap ==
    /\ (call.op = "backward" /\ tr.name = "circular") =>
          /\ call.res.nd = call.arg.nd
          /\ Size(call.res) = Size(call.arg)
          /\ \A i \in 1..Size(call.arg) :
                /\ Principal(call.res.v[i])
                /\ (call.res.v[i].n - call.arg.v[i].n) % 24 = 0
          /\ call.arg = Scalar(Ang(36)) => call.res = Scalar(Ang(12))
          /\ call.arg = Scalar(Ang(0)) => call.res = Scalar(Ang(0))
    /\ (call.op = "forward" /\ tr.name = "circular") => call.res = call.arg

C8_Witness ==
    /\ call.op = "backward"
    /\ tr.name = "circular"
    /\ call.arg = Scalar(Ang(36))
    /\ call.res = Scalar(Ang(12))

\* the derivatives of StickBreaking.backward(y) by y_j
StickBreakingColumn(y, j) ==
    LET x == StickBreaking_backward(Seed(y, j)).v
    IN  [i \in 1..Size(y) |-> x[i].g]

\* row j holds d backward(y)_i / d y_j for i = 1 .. K-1: the transpose of the
\* Jacobian of the first K-1 coordinates, which has the same determinant
StickBreakingJacobian(y) ==
    [j \in 1..Size(y) |-> StickBreakingColumn(y, j)]

RECURSIVE Det(_, _, _, _)
RECURSIVE DetRow(_, _, _, _, _, _)
\* the determinant of rows k..n and the columns Cols of M, expanded by row k
Det(M, n, k, Cols) ==
    IF k > n THEN One ELSE DetRow(M, n, k, Cols, 1, 1)

\* the terms of that expansion for the columns c..n; s is the sign of the
\* next column of Cols
DetRow(M, n, k, Cols, c, s) ==
    IF c > n THEN Zero
    ELSE IF c \notin Cols THEN DetRow(M, n, k, Cols, c + 1, s)
    ELSE Add(Mul(Mul(R(s, 1), M[k][c]), Det(M, n, k + 1, Cols \ {c})),
             DetRow(M, n, k, Cols, c + 1, -s))

RECURSIVE ProdSeq(_, _)
ProdSeq(s, i) == IF i = 0 THEN One ELSE Mul(ProdSeq(s, i - 1), s[i])

\* sigmoid(z'_k), z'_k = y_k - log(K - 1 - k), for k = i - 1
StickFraction(y, i) == Sigmoid(Sub(y.v[i], Log(R(Size(y) - (i - 1), 1))))

\* S_k sigmoid(z'_k) (1 - sigmoid(z'_k)) for k = i - 1, S_k the product of
\* 1 - sigmoid(z'_j) over j < k
StickFactor(y, i) ==
    Mul(ProdSeq([j \in 1..(i - 1) |-> Sub(One, StickFraction(y, j))], i - 1),
        Mul(StickFraction(y, i), Sub(One, StickFraction(y, i))))

\* C9: for y of length K-1 >= 1, StickBreaking.jacobian_det(y) is the sum
\* over k of log(S_k) - log(1 + exp(z'_k)) - log(1 + exp(-z'_k)), that is
\* the log of the product of S_k sigmoid(z'_k) (1 - sigmoid(z'_k)), and it
\* is the log of the absolute determinant of the Jacobian of the first K-1
\* coordinates of StickBreaking.backward at y.
C9_StickBreakingJacobian ==
    (call.op = "jacobian_det" /\ tr.name = "stickbreaking"
        /\ Size(call.arg) >= 1) =>
        /\ call.res =
              Scalar(Log(ProdSeq([i \in 1..Size(call.arg) |->
                                     StickFactor(call.arg, i)],
                                 Size(call.arg))))
        /\ \A J \in {StickBreakingJacobian(call.arg)} :
              call.res =
                  Scalar(Log(Abs(Det(J, Size(call.arg), 1, 1..Size(call.arg)))))

C9_Witness ==
    /\ call.op = "jacobian_det"
    /\ tr.name = "stickbreaking"
    /\ call.arg = Vec(<<Log(R(2, 1)), Log(R(1, 3))>>)
    /\ StickBreakingJacobian(call.arg)[1][2] # Zero
    /\ call.res = Scalar(Log(R(3, 128)))

\* backward(y) lies in the constrained support of the transform
InSupport(self, y, x) ==
    CASE self.name = "log" ->
            x.nd = y.nd /\ \A i \in 1..Size(x) : Positive(x.v[i])
      [] self.name = "logodds" ->
            x.nd = y.nd /\ \A i \in 1..Size(x) : StrictlyBetween(Zero, x.v[i], One)
      [] self.name = "interval" ->
            x.nd = y.nd
                /\ \A i \in 1..Size(x) : StrictlyBetween(self.a, x.v[i], self.b)
      [] self.name = "stickbreaking" ->
            /\ x.nd = 1
            /\ Size(x) = Size(y) + 1
            /\ \A i \in 1..Size(x) : StrictlyBetween(Zero, x.v[i], One)
            /\ SumSeq(Zero, x.v, Size(x)) = One
      [] OTHER -> TRUE

\* C10 as stated: for every finite y, Log.backward(y) > 0, LogOdds.backward(y)
\* is strictly between 0 and 1, Interval(a, b).backward(y) with a < b is
\* strictly between a and b, and StickBreaking.backward(y) has length
\* len(y) + 1, entries strictly between 0 and 1, and sum 1.
C10_SupportForEveryInput ==
    (call.op = "backward" /\ (tr.name = "interval" => Less(tr.a, tr.b))) =>
        InSupport(tr, call.arg, call.res)

\* C10: that holds for Log, LogOdds and Interval(a, b) with a < b, and for
\* StickBreaking.backward(y) when y has at least one entry; for the empty y
\* StickBreaking.backward returns the empty vector.
C10_BackwardInSupport ==
    /\ (call.op = "backward" /\ (tr.name = "interval" => Less(tr.a, tr.b))
            /\ (tr.name = "stickbreaking" => Size(call.arg) >= 1)) =>
          InSupport(tr, call.arg, call.res)
    /\ (call.op = "backward" /\ tr.name = "stickbreaking"
            /\ Size(call.arg) = 0) =>
          call.res = Vec(<<>>)

C10_Witness ==
    /\ call.op = "backward"
    /\ tr.name = "stickbreaking"
    /\ call.arg = Vec(<<Log(R(2, 1)), Log(R(1, 3))>>)
    /\ call.res = Vec(<<R(1, 2), R(1, 8), R(3, 8)>>)

====
